---- MODULE Spec2Model ----
(***************************************************************************)
(* NamedMap<T> of flexicon (src/adaptive/namedmap.rs): a HashMap<String,T> *)
(* wrapper whose decoding accepts either a sequence of names or a mapping  *)
(* of name to value, and whose encoding always emits the mapping.          *)
(*                                                                         *)
(* A collection is a function from a finite set of names to values of the  *)
(* element type T.  A serde_json::Value is a record tagged by `kind`.      *)
(* A Result is a record with ok = TRUE and the payload, or ok = FALSE and  *)
(* the class of the error; an Err carries no collection.                   *)
(***************************************************************************)
EXTENDS Integers, Sequences, FiniteSets, TLC

VARIABLES
    T,        \* the element type the program instantiates NamedMap with
    map,      \* the NamedMap the program holds (self.0)
    origin,   \* the call that last built or changed the contents of map
    op,       \* the last call and its argument
    result    \* what the last call returned

vars == <<T, map, origin, op, result>>

\* ------------------------------------------------------------------ bounds

\* Longest sequence handed to From<Vec<String>> or decoded as a JSON array.
MaxLen == 3

\* Longest JSON array handed to from_json_str as text.
MaxTextLen == 2

\* ------------------------------------------------------- names and strings

Names == {"a", "b"}

\* ------------------------------------------------- serde_json::Value trees

Null == [kind |-> "null"]
Bool(b) == [kind |-> "bool", b |-> b]
Number(n) == [kind |-> "number", n |-> n]
String(s) == [kind |-> "string", s |-> s]
Array(items) == [kind |-> "array", items |-> items]
Object(fields) == [kind |-> "object", fields |-> fields]

EmptyMap == [k \in {} |-> Null]

\* Value::as_str
as_str(v) == IF v.kind = "string" THEN [some |-> TRUE, s |-> v.s] ELSE [some |-> FALSE]

\* ---------------------------------------------------------------- results

Ok(m, calls) == [ok |-> TRUE, map |-> m, calls |-> calls]
Err(e, calls) == [ok |-> FALSE, err |-> e, calls |-> calls]

\* ---------------------------------------------------------- element types

\* TestItem { value: String, optional: bool } of the tests, Interface
\* { version: String } of the documented example, and the unit type () the
\* tests instantiate NamedMap with.
ElementTypes == {"TestItem", "Interface", "Unit"}

\* impl FromName for ...
FromNameTypes == {"TestItem", "Interface"}

\* #[derive(Clone)] / the standard Clone of ()
CloneTypes == {"TestItem", "Interface", "Unit"}

\* #[derive(Serialize)] / serde's Serialize of ()
SerializeTypes == {"TestItem", "Interface", "Unit"}

\* #[derive(Deserialize)] / serde's Deserialize of ()
DeserializeTypes == {"TestItem", "Interface", "Unit"}

ItemStrings == {"x"}
VersionStrings == {"latest", "1.0"}

TestItem(value, optional) == [value |-> value, optional |-> optional]
Interface(version) == [version |-> version]
Unit == [unit |-> TRUE]

ValuesOf(t) ==
    CASE t = "TestItem" -> {TestItem(s, b) : s \in ItemStrings, b \in BOOLEAN}
      [] t = "Interface" -> {Interface(s) : s \in VersionStrings}
      [] t = "Unit" -> {Unit}

\* FromName::from_name
from_name(t, name) ==
    CASE t = "TestItem" -> TestItem("from_name(" \o name \o ")", FALSE)
      [] t = "Interface" -> Interface("latest")

\* ------------------------------------- the structural codec of the elements

\* <T as Serialize>::serialize into a serde_json::Value: a derived struct
\* writes its fields in declaration order as a map, () writes null.
serialize_T(t, x) ==
    CASE t = "TestItem" ->
            Object([f \in {"value", "optional"} |->
                       IF f = "value" THEN String(x.value) ELSE Bool(x.optional)])
      [] t = "Interface" -> Object([f \in {"version"} |-> String(x.version)])
      [] t = "Unit" -> Null

HasField(v, f, kind) == f \in DOMAIN v.fields /\ v.fields[f].kind = kind

\* <T as Deserialize>::deserialize from a serde_json::Value: a derived
\* struct reads a map (every field required, unknown fields skipped) or a
\* sequence holding exactly its fields in declaration order; () reads null.
deserialize_T(t, v) ==
    CASE t = "TestItem" ->
            IF v.kind = "object"
            THEN IF HasField(v, "value", "string") /\ HasField(v, "optional", "bool")
                 THEN [ok |-> TRUE,
                       val |-> TestItem(v.fields["value"].s, v.fields["optional"].b)]
                 ELSE [ok |-> FALSE]
            ELSE IF v.kind = "array"
            THEN IF /\ Len(v.items) = 2
                    /\ v.items[1].kind = "string"
                    /\ v.items[2].kind = "bool"
                 THEN [ok |-> TRUE, val |-> TestItem(v.items[1].s, v.items[2].b)]
                 ELSE [ok |-> FALSE]
            ELSE [ok |-> FALSE]
      [] t = "Interface" ->
            IF v.kind = "object"
            THEN IF HasField(v, "version", "string")
                 THEN [ok |-> TRUE, val |-> Interface(v.fields["version"].s)]
                 ELSE [ok |-> FALSE]
            ELSE IF v.kind = "array"
            THEN IF Len(v.items) = 1 /\ v.items[1].kind = "string"
                 THEN [ok |-> TRUE, val |-> Interface(v.items[1].s)]
                 ELSE [ok |-> FALSE]
            ELSE [ok |-> FALSE]
      [] t = "Unit" ->
            IF v.kind = "null" THEN [ok |-> TRUE, val |-> Unit] ELSE [ok |-> FALSE]

\* --------------------------------------------------- HashMap<String, T>

\* The key strings of the model in ascending order.
KeyStrings == <<"a", "b", "optional", "value", "version">>

\* The keys S of a serde_json::Map in the order it iterates: a BTreeMap,
\* ascending.
BTreeOrder(S) == SelectSeq(KeyStrings, LAMBDA k : k \in S)

\* The orders in which a HashMap with the keys S may iterate.
IterationOrders(S) ==
    {p \in [1..Cardinality(S) -> S] : \A i, j \in 1..Cardinality(S) : p[i] = p[j] => i = j}

\* Variant of hm_insert that keeps the value of a key already present.
hm_insert_keep_existing(m, key, value) ==
    [k \in DOMAIN m \cup {key} |-> IF k \in DOMAIN m THEN m[k] ELSE value]

\* HashMap::insert: adds the key or replaces the value it has.
hm_insert(m, key, value) ==
    [k \in DOMAIN m \cup {key} |-> IF k = key THEN value ELSE m[k]]

\* HashMap::remove
hm_remove(m, key) == [k \in DOMAIN m \ {key} |-> m[k]]

\* HashMap::get
hm_get(m, key) ==
    IF key \in DOMAIN m THEN [some |-> TRUE, value |-> m[key]] ELSE [some |-> FALSE]

\* <HashMap<String, T> as Serialize>::serialize: serialize_map, one entry
\* per key.
serialize_HashMap(t, m) == Object([k \in DOMAIN m |-> serialize_T(t, m[k])])

\* <HashMap<String, T> as Deserialize>::deserialize of the entries of a
\* map: every value is decoded as T, the first failure is the result.
deserialize_HashMap(t, fields) ==
    IF \E k \in DOMAIN fields : ~deserialize_T(t, fields[k]).ok
    THEN [ok |-> FALSE]
    ELSE [ok |-> TRUE, map |-> [k \in DOMAIN fields |-> deserialize_T(t, fields[k]).val]]

\* ------------------------------------------------------------ NamedMap<T>

\* NamedMap::new
new == EmptyMap

\* NamedMap::insert
insert(self, key, value) == hm_insert(self, key, value)

\* Variant of is_empty that is off by one.
is_empty_le_one(self) == Cardinality(DOMAIN self) <= 1

\* NamedMap::is_empty
is_empty(self) == DOMAIN self = {}

\* The loop of From<Vec<String>>::from, from position i on.
RECURSIVE from_loop(_, _, _, _, _)
from_loop(t, list, i, m, calls) ==
    IF i > Len(list)
    THEN Ok(m, calls)
    ELSE from_loop(t, list, i + 1,
                   hm_insert(m, list[i], from_name(t, list[i])),
                   Append(calls, list[i]))

\* impl From<Vec<String>> for NamedMap<T>
from(t, list) == from_loop(t, list, 1, EmptyMap, <<>>)

\* ------------------------------------------------------- serde integration

\* SeqAccess::next_element::<String> at position i of a sequence of Values.
next_element_String(items, i) ==
    IF i > Len(items)
    THEN [ok |-> TRUE, some |-> FALSE]
    ELSE IF items[i].kind = "string"
         THEN [ok |-> TRUE, some |-> TRUE, name |-> items[i].s]
         ELSE [ok |-> FALSE]

\* Variant of visit_seq_loop that returns what it has on an element that is
\* no string.
RECURSIVE visit_seq_loop_partial(_, _, _, _, _)
visit_seq_loop_partial(t, seq, i, m, calls) ==
    LET e == next_element_String(seq, i)
    IN  IF ~e.ok \/ ~e.some
        THEN Ok(m, calls)
        ELSE visit_seq_loop_partial(t, seq, i + 1,
                                    hm_insert(m, e.name, from_name(t, e.name)),
                                    Append(calls, e.name))

\* The while-let loop of NamedMapVisitor::visit_seq, from position i on.
RECURSIVE visit_seq_loop(_, _, _, _, _)
visit_seq_loop(t, seq, i, m, calls) ==
    LET e == next_element_String(seq, i)
    IN  IF ~e.ok
        THEN Err("element", calls)
        ELSE IF ~e.some
             THEN Ok(m, calls)
             ELSE visit_seq_loop(t, seq, i + 1,
                                 hm_insert(m, e.name, from_name(t, e.name)),
                                 Append(calls, e.name))

\* Variant of visit_seq that starts at the second element.
visit_seq_from_second(t, seq) == visit_seq_loop(t, seq, 2, EmptyMap, <<>>)

\* NamedMapVisitor::visit_seq
visit_seq(t, seq) == visit_seq_loop(t, seq, 1, EmptyMap, <<>>)

\* Variant of visit_map that constructs from the name a value that does not
\* decode.
visit_map_fallback(t, fields) ==
    Ok([k \in DOMAIN fields |->
           IF deserialize_T(t, fields[k]).ok
           THEN deserialize_T(t, fields[k]).val
           ELSE from_name(t, k)],
       <<>>)

\* NamedMapVisitor::visit_map
visit_map(t, fields) ==
    LET inner == deserialize_HashMap(t, fields)
    IN  IF inner.ok THEN Ok(inner.map, <<>>) ELSE Err("nested", <<>>)

\* <NamedMap<T> as Deserialize>::deserialize on a serde_json::Value:
\* deserialize_any calls the visitor method of the value's kind, and the
\* visitor defines only visit_seq and visit_map.
deserialize(t, v) ==
    CASE v.kind = "array" -> visit_seq(t, v.items)
      [] v.kind = "object" -> visit_map(t, v.fields)
      [] OTHER -> Err("shape", <<>>)

\* Variant of serialize that writes the names alone when every value is the
\* one its name constructs.
serialize_terse(t, self) ==
    IF t \in FromNameTypes /\ \A k \in DOMAIN self : self[k] = from_name(t, k)
    THEN Array([i \in 1..Cardinality(DOMAIN self) |-> String(BTreeOrder(DOMAIN self)[i])])
    ELSE serialize_HashMap(t, self)

\* <NamedMap<T> as Serialize>::serialize
serialize(t, self) == serialize_HashMap(t, self)

\* ------------------------------------------------- JSON convenience methods

\* The traits the file brings into scope at its top level, where the JSON
\* convenience methods are written: use std::ops::{Deref, DerefMut}.
TraitsInScope == {"Deref", "DerefMut"}

\* serde_json::Error::custom(..) is a function of the trait serde::de::Error
\* and resolves only with that trait in scope.
ErrorCustomResolves == "serde::de::Error" \in TraitsInScope

\* The items under #[cfg(feature = "serde_json")] are compiled together:
\* with the feature on, the crate builds only if every one of them resolves;
\* with it off, none of them exists.
JsonFeatureBuilds == ErrorCustomResolves

\* A call the compiler rejects (E0599): nothing is returned.
NotBuilt == Err("compile", <<>>)

\* NamedMap::to_json_value
to_json_value(t, self) ==
    IF ~JsonFeatureBuilds
    THEN NotBuilt
    ELSE [ok |-> TRUE, value |-> serialize_HashMap(t, self)]

\* The for loop of the Array arm of NamedMap::from_json_value; its body
\* names serde_json::Error::custom.
RECURSIVE array_loop(_, _, _, _, _)
array_loop(t, arr, i, m, calls) ==
    IF ~ErrorCustomResolves
    THEN NotBuilt
    ELSE IF i > Len(arr)
         THEN Ok(m, calls)
         ELSE LET s == as_str(arr[i])
              IN  IF ~s.some
                  THEN Err("element", calls)
                  ELSE array_loop(t, arr, i + 1,
                                  hm_insert(m, s.s, from_name(t, s.s)),
                                  Append(calls, s.s))

\* NamedMap::from_json_value; its Array arm and its catch-all arm name
\* serde_json::Error::custom.
from_json_value(t, value) ==
    IF ~ErrorCustomResolves
    THEN NotBuilt
    ELSE CASE value.kind = "object" ->
                 LET inner == deserialize_HashMap(t, value.fields)
                 IN  IF inner.ok THEN Ok(inner.map, <<>>) ELSE Err("nested", <<>>)
           [] value.kind = "array" -> array_loop(t, value.items, 1, EmptyMap, <<>>)
           [] OTHER -> Err("shape", <<>>)

\* ---------------------------------------------------------------- JSON text

\* A JSON text is the sequence of its tokens: punctuation and scalars.
Punct(c) == [tok |-> c]
Scalar(v) == [tok |-> "scalar", v |-> v]

\* serde_json's compact writer on a Value; an object's members are written
\* in ascending key order.
RECURSIVE write_value(_)
RECURSIVE write_items(_, _)
RECURSIVE write_members(_, _, _)
write_value(v) ==
    CASE v.kind = "array" -> <<Punct("[")>> \o write_items(v.items, 1) \o <<Punct("]")>>
      [] v.kind = "object" ->
            <<Punct("{")>> \o write_members(v.fields, BTreeOrder(DOMAIN v.fields), 1)
                \o <<Punct("}")>>
      [] OTHER -> <<Scalar(v)>>
write_items(items, i) ==
    IF i > Len(items)
    THEN <<>>
    ELSE (IF i > 1 THEN <<Punct(",")>> ELSE <<>>)
             \o write_value(items[i]) \o write_items(items, i + 1)
write_members(fields, order, i) ==
    IF i > Len(order)
    THEN <<>>
    ELSE (IF i > 1 THEN <<Punct(",")>> ELSE <<>>)
             \o <<Scalar(String(order[i])), Punct(":")>>
             \o write_value(fields[order[i]]) \o write_members(fields, order, i + 1)

\* The fields of T in declaration order, as the derived Serialize writes them.
FieldOrder(t) ==
    CASE t = "TestItem" -> <<"value", "optional">>
      [] t = "Interface" -> <<"version">>
      [] t = "Unit" -> <<>>

\* <T as Serialize>::serialize into serde_json's compact writer.
write_T(t, x) ==
    LET v == serialize_T(t, x)
    IN  IF v.kind = "object"
        THEN <<Punct("{")>> \o write_members(v.fields, FieldOrder(t), 1) \o <<Punct("}")>>
        ELSE write_value(v)

\* The entries of the map written in the iteration order of the HashMap.
RECURSIVE write_entries(_, _, _, _)
write_entries(t, self, order, i) ==
    IF i > Len(order)
    THEN <<>>
    ELSE (IF i > 1 THEN <<Punct(",")>> ELSE <<>>)
             \o <<Scalar(String(order[i])), Punct(":")>>
             \o write_T(t, self[order[i]]) \o write_entries(t, self, order, i + 1)

\* NamedMap::to_json_string; `order` is the iteration order of self.0.
to_json_string(t, self, order) ==
    IF ~JsonFeatureBuilds
    THEN NotBuilt
    ELSE [ok |-> TRUE,
          text |-> <<Punct("{")>> \o write_entries(t, self, order, 1) \o <<Punct("}")>>]

IsPunct(s, i, c) == i <= Len(s) /\ s[i].tok = c

\* serde_json's parser of a Value at position i of a text: the Value and
\* the position after it, or a syntax error.  A repeated key of an object
\* keeps the last value (Map::insert).
RECURSIVE parse_value(_, _)
RECURSIVE parse_items(_, _, _)
RECURSIVE parse_members(_, _, _)
parse_value(s, i) ==
    IF i > Len(s)
    THEN [ok |-> FALSE]
    ELSE CASE s[i].tok = "scalar" -> [ok |-> TRUE, value |-> s[i].v, next |-> i + 1]
           [] s[i].tok = "[" ->
                 IF IsPunct(s, i + 1, "]")
                 THEN [ok |-> TRUE, value |-> Array(<<>>), next |-> i + 2]
                 ELSE parse_items(s, i + 1, <<>>)
           [] s[i].tok = "{" ->
                 IF IsPunct(s, i + 1, "}")
                 THEN [ok |-> TRUE, value |-> Object(EmptyMap), next |-> i + 2]
                 ELSE parse_members(s, i + 1, EmptyMap)
           [] OTHER -> [ok |-> FALSE]
parse_items(s, i, items) ==
    LET e == parse_value(s, i)
    IN  IF ~e.ok
        THEN [ok |-> FALSE]
        ELSE IF IsPunct(s, e.next, ",")
             THEN parse_items(s, e.next + 1, Append(items, e.value))
             ELSE IF IsPunct(s, e.next, "]")
                  THEN [ok |-> TRUE, value |-> Array(Append(items, e.value)),
                        next |-> e.next + 1]
                  ELSE [ok |-> FALSE]
parse_members(s, i, fields) ==
    IF ~(i <= Len(s) /\ s[i].tok = "scalar" /\ s[i].v.kind = "string" /\ IsPunct(s, i + 1, ":"))
    THEN [ok |-> FALSE]
    ELSE LET e == parse_value(s, i + 2)
         IN  IF ~e.ok
             THEN [ok |-> FALSE]
             ELSE IF IsPunct(s, e.next, ",")
                  THEN parse_members(s, e.next + 1, hm_insert(fields, s[i].v.s, e.value))
                  ELSE IF IsPunct(s, e.next, "}")
                       THEN [ok |-> TRUE,
                             value |-> Object(hm_insert(fields, s[i].v.s, e.value)),
                             next |-> e.next + 1]
                       ELSE [ok |-> FALSE]

\* serde_json::from_str::<Value>: one value and nothing after it.
from_str(s) ==
    LET e == parse_value(s, 1)
    IN  IF e.ok /\ e.next = Len(s) + 1
        THEN [ok |-> TRUE, value |-> e.value]
        ELSE [ok |-> FALSE]

\* NamedMap::from_json_str; it calls from_json_value.
from_json_str(t, s) ==
    IF ~JsonFeatureBuilds
    THEN NotBuilt
    ELSE LET value == from_str(s)
         IN  IF ~value.ok THEN Err("format", <<>>) ELSE from_json_value(t, value.value)

\* ------------------------------------------------------------ trait bounds

\* impl<T: FromName + Clone> From<Vec<String>> for NamedMap<T>
FromAvailable(t) == t \in FromNameTypes /\ t \in CloneTypes

\* impl Deserialize for NamedMap<T> where T: DeserializeOwned + FromName + Clone
DeserializeAvailable(t) ==
    t \in DeserializeTypes /\ t \in FromNameTypes /\ t \in CloneTypes

\* impl Serialize for NamedMap<T> where T: Serialize
SerializeAvailable(t) == t \in SerializeTypes

\* impl<T> NamedMap<T> where T: serde::Serialize (to_json_value, to_json_string)
ToJsonAvailable(t) == t \in SerializeTypes

\* impl<T> NamedMap<T> where T: Deserialize + FromName + Clone
\* (from_json_value, from_json_str)
FromJsonAvailable(t) ==
    t \in DeserializeTypes /\ t \in FromNameTypes /\ t \in CloneTypes

\* A call whose trait bounds T does not satisfy is rejected by the compiler:
\* it yields no collection and runs nothing.
Unsatisfied == Err("trait_bound", <<>>)

\* ------------------------------------------------------------------ inputs

SeqsUpTo(S, n) == UNION {[1..k -> S] : k \in 0..n}

Scalars == {Null, Bool(TRUE), Bool(FALSE), Number(5), String("a")}

ArrayElements == {String(n) : n \in Names} \cup {Number(5)}

ArrayValues == {Array(items) : items \in SeqsUpTo(ArrayElements, MaxLen)}

\* Values supplied under a key of a mapping: well-formed and ill-formed
\* encodings of the element types.
SubValues ==
    { Null,
      serialize_T("TestItem", TestItem("x", TRUE)),
      serialize_T("TestItem", TestItem("from_name(a)", FALSE)),
      Array(<<String("x"), Bool(TRUE)>>),
      Object([f \in {"value"} |-> String("x")]),
      Object([f \in {"value", "optional"} |-> IF f = "value" THEN Number(5) ELSE Bool(TRUE)]),
      Object([f \in {"value", "optional", "version"} |->
                 IF f = "optional" THEN Bool(FALSE) ELSE String("x")]),
      serialize_T("Interface", Interface("1.0")) }

TextSubValues ==
    { Null,
      serialize_T("TestItem", TestItem("x", TRUE)),
      Array(<<String("x"), Bool(TRUE)>>),
      serialize_T("Interface", Interface("1.0")) }

ObjectValues == {Object(fields) : fields \in UNION {[D -> SubValues] : D \in SUBSET Names}}

InputValues == Scalars \cup ArrayValues \cup ObjectValues

\* Texts that are no JSON document, and one with a repeated key.
MalformedTexts ==
    { <<>>,
      <<Punct("[")>>,
      <<Punct("["), Scalar(String("a")), Punct(","), Punct("]")>>,
      <<Punct("{"), Scalar(String("a")), Punct("}")>>,
      <<Scalar(Null), Scalar(Null)>> }

RepeatedKeyTexts ==
    { <<Punct("{"), Scalar(String("a")), Punct(":"), Scalar(Number(5)), Punct(","),
        Scalar(String("a")), Punct(":"), Scalar(Null), Punct("}")>>,
      <<Punct("{"), Scalar(String("a")), Punct(":"), Scalar(Number(5)), Punct(","),
        Scalar(String("a")), Punct(":")>>
          \o write_T("TestItem", TestItem("x", TRUE)) \o <<Punct("}")>> }

\* The documents handed over as text.
TextValues ==
    Scalars
        \cup {Array(items) : items \in SeqsUpTo({String("a"), Number(5)}, MaxTextLen)}
        \cup {Object(fields) : fields \in UNION {[D -> TextSubValues] : D \in SUBSET Names}}

InputTexts == {write_value(v) : v \in TextValues} \cup MalformedTexts \cup RepeatedKeyTexts

\* ----------------------------------------------------------- state machine

Done == [ok |-> TRUE]

TypeInit(types) ==
    /\ T \in types
    /\ map = new
    /\ origin = "new"
    /\ op = [name |-> "new"]
    /\ result = Done

\* Programs that use every method: T satisfies every bound.
Init == TypeInit({t \in ElementTypes : DeserializeAvailable(t) /\ SerializeAvailable(t)})

\* Programs over any element type of the source.
InitAnyT == TypeInit(ElementTypes)

\* NamedMap::new()
New ==
    /\ map' = new
    /\ origin' = "new"
    /\ op' = [name |-> "new"]
    /\ result' = Done
    /\ UNCHANGED T

\* NamedMap::default()
Default ==
    /\ map' = new
    /\ origin' = "new"
    /\ op' = [name |-> "default"]
    /\ result' = Done
    /\ UNCHANGED T

\* map.insert(key, value)
Insert(key, value) ==
    /\ map' = insert(map, key, value)
    /\ origin' = "insert"
    /\ op' = [name |-> "insert", key |-> key, value |-> value]
    /\ result' = Done
    /\ UNCHANGED T

\* map.remove(key), the HashMap method reached through DerefMut
Remove(key) ==
    /\ map' = hm_remove(map, key)
    /\ origin' = "remove"
    /\ op' = [name |-> "remove", key |-> key]
    /\ result' = hm_get(map, key)
    /\ UNCHANGED T

\* map.get(key), the HashMap method reached through Deref
Get(key) ==
    /\ op' = [name |-> "get", key |-> key]
    /\ result' = hm_get(map, key)
    /\ UNCHANGED <<T, map, origin>>

\* map.as_inner()
AsInner ==
    /\ op' = [name |-> "as_inner"]
    /\ result' = [ok |-> TRUE, inner |-> map]
    /\ UNCHANGED <<T, map, origin>>

\* map.as_inner_mut().clear()
Clear ==
    /\ map' = EmptyMap
    /\ origin' = "remove"
    /\ op' = [name |-> "clear"]
    /\ result' = Done
    /\ UNCHANGED T

\* map.is_empty()
IsEmpty ==
    /\ op' = [name |-> "is_empty"]
    /\ result' = [ok |-> TRUE, bool |-> is_empty(map)]
    /\ UNCHANGED <<T, map, origin>>

\* A decoder or constructor returned r: the program holds the collection of
\* an Ok and keeps the one it had on an Err.
Returned(r, how) ==
    /\ result' = r
    /\ IF r.ok
       THEN map' = r.map /\ origin' = how
       ELSE UNCHANGED <<map, origin>>
    /\ UNCHANGED T

\* NamedMap::from(list)
From(list) ==
    /\ op' = [name |-> "from", input |-> list]
    /\ Returned(IF FromAvailable(T) THEN from(T, list) ELSE Unsatisfied, "from")

ShapeOf(v) == IF v.kind = "array" THEN "seq" ELSE "mapping"

\* serde_json::from_value::<NamedMap<T>>(v): the Deserialize implementation
Deserialize(v) ==
    /\ op' = [name |-> "deserialize", input |-> v]
    /\ Returned(IF DeserializeAvailable(T) THEN deserialize(T, v) ELSE Unsatisfied,
                ShapeOf(v))

\* NamedMap::from_json_value(v)
FromJsonValue(v) ==
    /\ op' = [name |-> "from_json_value", input |-> v]
    /\ Returned(IF FromJsonAvailable(T) THEN from_json_value(T, v) ELSE Unsatisfied,
                ShapeOf(v))

\* NamedMap::from_json_str(s)
FromJsonStr(s) ==
    /\ op' = [name |-> "from_json_str", input |-> s]
    /\ Returned(IF FromJsonAvailable(T) THEN from_json_str(T, s) ELSE Unsatisfied,
                IF from_str(s).ok THEN ShapeOf(from_str(s).value) ELSE "none")

\* serde_json::to_value(&map): the Serialize implementation
Serialize ==
    /\ op' = [name |-> "serialize"]
    /\ result' = IF SerializeAvailable(T)
                 THEN [ok |-> TRUE, value |-> serialize(T, map)]
                 ELSE Unsatisfied
    /\ UNCHANGED <<T, map, origin>>

\* map.to_json_value()
ToJsonValue ==
    /\ op' = [name |-> "to_json_value"]
    /\ result' = IF ToJsonAvailable(T)
                 THEN to_json_value(T, map)
                 ELSE Unsatisfied
    /\ UNCHANGED <<T, map, origin>>

\* map.to_json_string(), the HashMap iterating in the order `order`
ToJsonString(order) ==
    /\ op' = [name |-> "to_json_string"]
    /\ result' = IF ToJsonAvailable(T)
                 THEN to_json_string(T, map, order)
                 ELSE Unsatisfied
    /\ UNCHANGED <<T, map, origin>>

\* The body of test_json_roundtrip_array / test_json_roundtrip_object on the
\* collection held: to_json_string, then from_json_str of the text.
RoundtripString(order) ==
    /\ op' = [name |-> "roundtrip_string"]
    /\ result' = IF ToJsonAvailable(T) /\ FromJsonAvailable(T)
                 THEN [original |-> map,
                       restored |-> LET json_str == to_json_string(T, map, order)
                                    IN  IF json_str.ok
                                        THEN from_json_str(T, json_str.text)
                                        ELSE json_str]
                 ELSE [original |-> map, restored |-> Unsatisfied]
    /\ UNCHANGED <<T, map, origin>>

\* The same round trip through to_json_value and from_json_value.
RoundtripValue ==
    /\ op' = [name |-> "roundtrip_value"]
    /\ result' = IF ToJsonAvailable(T) /\ FromJsonAvailable(T)
                 THEN [original |-> map,
                       restored |-> LET json == to_json_value(T, map)
                                    IN  IF json.ok
                                        THEN from_json_value(T, json.value)
                                        ELSE json]
                 ELSE [original |-> map, restored |-> Unsatisfied]
    /\ UNCHANGED <<T, map, origin>>

Next ==
    \/ New
    \/ Default
    \/ \E key \in Names, value \in ValuesOf(T) : Insert(key, value)
    \/ \E key \in Names : Remove(key)
    \/ \E key \in Names : Get(key)
    \/ IsEmpty
    \/ AsInner
    \/ Clear
    \/ \E list \in SeqsUpTo(Names, MaxLen) : From(list)
    \/ \E v \in InputValues : Deserialize(v)
    \/ \E v \in InputValues : FromJsonValue(v)
    \/ \E s \in InputTexts : FromJsonStr(s)
    \/ Serialize
    \/ ToJsonValue
    \/ \E order \in IterationOrders(DOMAIN map) : ToJsonString(order)
    \/ \E order \in IterationOrders(DOMAIN map) : RoundtripString(order)
    \/ RoundtripValue

Spec == Init /\ [][Next]_vars

SpecAnyT == InitAnyT /\ [][Next]_vars

\* ------------------------------------------------------------------ claims

\* The decoder of the crate that builds: the Deserialize implementation.
IsDecode == op.name = "deserialize"

\* The calls of either decoder.
IsEitherDecode == op.name \in {"deserialize", "from_json_value"}

NamesOf(items) == [i \in 1..Len(items) |-> items[i].s]

AllStrings(items) == \A i \in 1..Len(items) : items[i].kind = "string"

NoCollection(r) == ~r.ok /\ "map" \notin DOMAIN r

\* C1: encoding any collection held (to_json_string or to_json_value) and
\* decoding what was written (from_json_str or from_json_value) succeeds and
\* gives back an equal collection: the same keys, an equal value under each.
C1_RoundTrip ==
    op.name \in {"roundtrip_string", "roundtrip_value"} =>
        /\ result.restored.ok
        /\ DOMAIN result.restored.map = DOMAIN result.original
        /\ \A k \in DOMAIN result.original : result.restored.map[k] = result.original[k]

\* C2: decoding a sequence of name strings succeeds and yields the
\* collection From builds of the same names: the keys are the distinct names
\* of the sequence, each mapped to from_name of itself, a repeated name
\* giving one entry.
C2_SequenceDecode ==
    (IsDecode /\ op.input.kind = "array" /\ AllStrings(op.input.items)) =>
        LET L == NamesOf(op.input.items)
        IN  /\ result.ok
            /\ result.map = from(T, L).map
            /\ DOMAIN result.map = {L[i] : i \in 1..Len(L)}
            /\ \A n \in DOMAIN result.map : result.map[n] = from_name(T, n)
            /\ Cardinality(DOMAIN result.map) = Cardinality({L[i] : i \in 1..Len(L)})
            /\ map = result.map

C2_Witness ==
    /\ op.name = "deserialize"
    /\ op.input = Array(<<String("b"), String("a"), String("b")>>)
    /\ result.ok
    /\ DOMAIN map = {"a", "b"}
    /\ origin = "seq"

\* C3: whatever built the collection, encoding it gives a mapping of each
\* name to its encoded value and never a sequence; the empty collection
\* encodes as the empty mapping.
C3_CanonicalEncode ==
    op.name = "serialize" =>
        /\ result.ok
        /\ result.value.kind = "object"
        /\ DOMAIN result.value.fields = DOMAIN map
        /\ \A k \in DOMAIN map : result.value.fields[k] = serialize_T(T, map[k])
        /\ map = EmptyMap => result.value = Object(EmptyMap)

C3_Witness ==
    /\ op.name = "serialize"
    /\ origin = "seq"
    /\ DOMAIN map = {"a", "b"}
    /\ result.value.kind = "object"

\* C4: decoding a top-level null, boolean, number or string fails with a
\* shape error on both decoders, the Deserialize implementation and
\* from_json_value, and returns no collection.
C4_InvalidShape ==
    (IsEitherDecode /\ op.input.kind \notin {"array", "object"}) =>
        /\ NoCollection(result)
        /\ result.err = "shape"

HasNonString(v) == v.kind = "array" /\ ~AllStrings(v.items)

\* C5: decoding a sequence with an element that is no string fails with an
\* element-type error wherever that element stands; the call returns no
\* collection and the collection held is left as it was.
C5_InvalidElement ==
    [][(op'.name = "deserialize" /\ HasNonString(op'.input)) =>
          /\ NoCollection(result')
          /\ result'.err = "element"
          /\ map' = map
          /\ origin' = origin]_vars

C5_Witness ==
    /\ op.name = "deserialize"
    /\ op.input = Array(<<String("a"), Number(5), String("b")>>)
    /\ ~result.ok
    /\ result.calls = <<"a">>
    /\ "a" \notin DOMAIN map

\* C6: new() and default() give an empty collection, decoding [] or {}
\* succeeds with an empty collection, and is_empty() is true exactly when
\* the collection has no entries.
C6_Emptiness ==
    /\ op.name \in {"new", "default"} => is_empty(map) /\ Cardinality(DOMAIN map) = 0
    /\ (IsDecode /\ op.input \in {Array(<<>>), Object(EmptyMap)}) =>
          result.ok /\ DOMAIN result.map = {} /\ is_empty(map)
    /\ op.name = "is_empty" => result.bool = (Cardinality(DOMAIN map) = 0)

C6_Witness ==
    /\ op.name = "is_empty"
    /\ origin = "remove"
    /\ result.bool
    /\ DOMAIN map = {}

\* C7: insert(name, value) makes name map to value, leaves every other key
\* as it was, and grows the size by 1 when name was absent and by 0 when it
\* was present.
C7_Insert ==
    [][op'.name = "insert" =>
          /\ op'.key \in DOMAIN map' /\ map'[op'.key] = op'.value
          /\ \A k \in Names \ {op'.key} :
                /\ k \in DOMAIN map' <=> k \in DOMAIN map
                /\ k \in DOMAIN map => map'[k] = map[k]
          /\ Cardinality(DOMAIN map') =
                Cardinality(DOMAIN map) + (IF op'.key \in DOMAIN map THEN 0 ELSE 1)]_vars

C7_Witness ==
    /\ op.name = "insert"
    /\ DOMAIN map = {"a", "b"}
    /\ map[op.key] = op.value
    /\ \E k \in DOMAIN map : k # op.key /\ map[k] # op.value

ValidMapping(t, v) == v.kind = "object" /\ deserialize_HashMap(t, v.fields).ok

\* C8: for an element type that decodes structurally but has no FromName,
\* decoding a valid mapping succeeds with the decoded values, and decoding a
\* sequence is rejected.
C8_MappingOnly ==
    (IsDecode /\ T \in DeserializeTypes /\ T \notin FromNameTypes) =>
        /\ ValidMapping(T, op.input) =>
              result.ok /\ result.map = deserialize_HashMap(T, op.input.fields).map
        /\ op.input.kind = "array" => NoCollection(result)

\* C9: decoding a mapping yields the keys of the mapping, each with the
\* structural decode of the value given for it, without calling from_name;
\* when the value of some key does not decode as T the decode fails with no
\* collection.
C9_MappingDecode ==
    (IsDecode /\ op.input.kind = "object") =>
        LET fields == op.input.fields
        IN  /\ result.calls = <<>>
            /\ IF \A k \in DOMAIN fields : deserialize_T(T, fields[k]).ok
               THEN /\ result.ok
                    /\ DOMAIN result.map = DOMAIN fields
                    /\ \A k \in DOMAIN fields :
                          result.map[k] = deserialize_T(T, fields[k]).val
               ELSE NoCollection(result)

C9_Witness ==
    /\ op.name = "deserialize"
    /\ op.input.kind = "object"
    /\ DOMAIN op.input.fields = {"a", "b"}
    /\ result.ok
    /\ origin = "mapping"
    /\ \A k \in DOMAIN map : map[k] # from_name(T, k)

\* C10: on every Value, from_json_value and the Deserialize implementation
\* both fail or both succeed with equal collections.
C10_SameFormats ==
    /\ op.name = "from_json_value" =>
          LET d == deserialize(T, op.input)
          IN  /\ result.ok = d.ok
              /\ result.ok => result.map = d.map
    /\ op.name = "deserialize" =>
          LET j == from_json_value(T, op.input)
          IN  /\ result.ok = j.ok
              /\ result.ok => result.map = j.map

====
